---- MODULE Spec2Model ----
(***************************************************************************)
(* Model of the streaming transcription scripts of the repository:         *)
(*   capture_and_translate.py: capture loop          (prog = "capture")    *)
(*   local_file_diarize_transcribe.py: the realtime                        *)
(*       diarize loop, main and process_chunk        (prog = "realtime")   *)
(*   local_realtime_transcribe.py: the file pipeline,                      *)
(*       enrollment and identify_speaker             (prog = "file")       *)
(* (the two local_* files hold each other's pipeline),                     *)
(*   backend/main.py: the websocket endpoint         (prog = "ws")         *)
(*   agents/alert_manager_agent.py: the alert store  (prog = "alerts")     *)
(*   agentic backend/main.py: the alert endpoints    (prog = "api")        *)
(*   agentic backend/main.py: ConnectionManager      (prog = "manager")    *)
(*   integrate_with_transcription.py: the monitor    (prog = "monitor")    *)
(*   agents/alert_manager_agent.py: the plan tool    (prog = "plan")       *)
(* One behaviour is one run of one program; prog is chosen in Init.        *)
(*                                                                         *)
(* Audio samples are numbered 1, 2, 3, ... in capture order, so that a     *)
(* dropped, duplicated or reordered sample is visible in every buffer.     *)
(* Times are counted in ticks, TicksPerSample ticks per sample period, so  *)
(* that int(t * sample_rate) truncates.  SAMPLE_RATE and CHUNK_DURATION    *)
(* are scaled down from 16000 Hz and 5 s; SAMPLE_RATE stays even, as in    *)
(* the source, CHUNK_SAMPLES stays their product.                          *)
(***************************************************************************)
EXTENDS Integers, Sequences, FiniteSets, TLC

\* ---------------------------------------------------------------- bounds
MaxSamples == 9        \* samples captured in one run
MaxFrame == 5          \* largest frame the audio callback delivers
MaxTurns == 2          \* turns the diarizer yields for one chunk / file
MaxTurnStart == 2      \* latest start of a turn, in ticks
MaxTurnLen == 5        \* longest turn, in ticks
MaxEnroll == 2         \* enroll_speaker calls in one run
MaxBytes == 10         \* bytes one websocket connection receives
MaxMessage == 4        \* largest binary message, in bytes
MaxCalls == 3          \* process_violation calls stored or in flight
MaxTime == 4           \* the clock of the alert manager stops here
MaxStored == 2         \* process_violation calls of the application
MaxConns == 3          \* websocket clients of the application
MaxBroadcasts == 2     \* broadcasts in one run
MaxStarts == 2         \* start() calls of the monitor in flight at once
MaxPosts == 2          \* requests the monitor posts in one run
MaxPlans == 2          \* calls of _plan_actions_tool in one run

\* ------------------------------------------------------ program constants
SAMPLE_RATE == 2
CHUNK_DURATION == 2
CHUNK_SAMPLES == SAMPLE_RATE * CHUNK_DURATION
TicksPerSample == 2
\* q = queue.Queue(): no maxsize is given, and maxsize 0 means no limit
Q_MAXSIZE == 0
\* backend/main.py: `len(audio_data) > 16000 * 5`, scaled down
WS_BUFFER_BYTES == 3
\* AlertManagerAgent.__init__, scaled down: max_alerts_per_speaker (10),
\* duplicate_time_window (300 s) and the seconds of a day (timedelta.seconds
\* is the remainder of the difference after whole days), in clock ticks;
\* severity_thresholds[LOW] (0.6), in tenths
MAX_ALERTS_PER_SPEAKER == 2
DUPLICATE_TIME_WINDOW == 2
SECONDS_PER_DAY == 4
SEVERITY_LOW == 6

\* ------------------------------------------------------------- sequences
RECURSIVE Concat(_)
\* np.concatenate of a list of arrays
Concat(arrays) ==
    IF arrays = <<>> THEN <<>> ELSE Head(arrays) \o Concat(Tail(arrays))

Min(a, b) == IF a < b THEN a ELSE b

\* Python slice a[lo:hi] for 0 <= lo, hi (indices clamp to len(a))
Slice(a, lo, hi) == SubSeq(a, Min(lo, Len(a)) + 1, Min(hi, Len(a)))

\* Python slice a[:n]
Take(a, n) == Slice(a, 0, n)

DropOffByOne(a, n) == Slice(a, n + 1, Len(a))

\* Python slice a[n:]
Drop(a, n) == Slice(a, n, Len(a))

\* int(t * sample_rate) for a time t given in ticks: truncation to a sample index
ToSample(ticks) == ticks \div TicksPerSample

VARIABLES
    prog,        \* the script that runs
    q,           \* queue.Queue(): frames put by the callback, not yet taken
    captured,    \* number of samples the input stream has delivered
    received,    \* samples the consumer loop has taken from q, in order
    pc,          \* position of the consumer loop
    buffer,      \* capture: ndarray of leftover samples; realtime: list of arrays
    chunk_idx,   \* capture: index of the next chunk
    sent,        \* capture: chunks sent to the API, [idx, chunk, outcome, shown,
                 \* calls]
    rt_chunks,   \* realtime: chunks handed to process_chunk
    tmp_wav,     \* realtime: the temporary WAV file of process_chunk exists
    results,     \* the results list of the running process_chunk / the lines the
                 \* file pipeline has printed: each entry is the number of its turn
    turn_no,     \* turns the diarizer has yielded in the running call
    last_turn,   \* the turn handled last, with the fields of its result
    disk,        \* file: ENROLL_DIR, name -> embedding saved in <name>.npy
    enrolled_at, \* file: when each name was enrolled (0: never), by n_enrolls
    n_enrolls,   \* file: enroll_speaker calls so far
    speakers,    \* file: the dict load_enrolled_speakers built, in insertion order
    audio,       \* file: the samples read from the audio file
    id_log,      \* file: (embedding, label) of the identifications made since
                 \* the registry last changed
    writer,      \* file: the np.save an enroll_speaker call is in the middle of
    fault,       \* what ended the run: "" while it runs or after Ctrl+C
    ws_pc,       \* ws: position of websocket_endpoint
    audio_data,  \* ws: the bytearray, bytes numbered in arrival order
    ws_count,    \* ws: bytes received on the connection
    ws_requests, \* ws: the bodies posted to the transcription service
    ws_replies,  \* ws: the texts sent to the client
    alerts,      \* alerts: self.alerts
    alert_counter, \* alerts: self.alert_counter
    pending,     \* alerts: the process_violation calls waiting at crew.kickoff()
    now,         \* alerts: datetime.now(), in ticks
    notified,    \* alerts: the ids of the alerts passed to alert_callback
    reply,       \* alerts: what the newest finished call or request gave back
    alert_manager, \* api: the global alert_manager, "None" before startup
    active_connections, \* manager: ConnectionManager.active_connections
    conn_state,  \* manager: each websocket: new, open, gone (the client has
                 \* left), closed (its handler has returned), error (its
                 \* handler has raised)
    bc,          \* manager: the broadcast under way or the last one: the
                 \* iterator's index, the connection taken, the list at the
                 \* start and the sends made
    monitor,     \* monitor: self._connected, session, websocket, and the start()
                 \* and stop() calls waiting at an await
    mon_sent,    \* monitor: the requests posted to the backend
    mon_reply,   \* monitor: what the newest process_segment or
                 \* upload_document call returned
    mon_event,   \* monitor: the newest of: a health check ended, a stop()
                 \* ended
    plans        \* plan: the calls of _plan_actions_tool and what they returned

vars == <<prog, q, captured, received, pc, buffer, chunk_idx, sent,
          rt_chunks, tmp_wav, results, turn_no, last_turn,
          disk, enrolled_at, n_enrolls, speakers, audio, id_log, writer, fault,
          ws_pc, audio_data, ws_count, ws_requests, ws_replies,
          alerts, alert_counter, pending, now, notified, reply, alert_manager,
          active_connections, conn_state, bc,
          monitor, mon_sent, mon_reply, mon_event, plans>>

streamVars == <<q, captured>>
captureVars == <<chunk_idx, sent>>
realtimeVars == <<rt_chunks, tmp_wav>>
turnVars == <<results, turn_no, last_turn>>
wsVars == <<ws_pc, audio_data, ws_count, ws_requests, ws_replies>>
alertVars == <<alerts, alert_counter, pending, now, notified, reply, alert_manager>>
managerVars == <<active_connections, conn_state, bc>>
monitorVars == <<monitor, mon_sent, mon_reply, mon_event>>
agenticVars == <<managerVars, monitorVars, plans>>
serviceVars == <<wsVars, alertVars, agenticVars>>
registryVars == <<disk, enrolled_at, n_enrolls, writer>>
fileVars == <<disk, enrolled_at, n_enrolls, writer, speakers, audio, id_log>>
scriptVars == <<pc, streamVars, received, buffer, captureVars, realtimeVars, turnVars,
                fileVars, fault>>

\* ------------------------------------------------- speaker embeddings
\* Embeddings are integer vectors of integer length, so that every cosine
\* distance is a fraction and is compared exactly.  Against E_ONE:
\* E_NEAR is at distance 9/13, E_EDGE at 7/10, E_FAR at 3/4.
E_ONE == <<1, 0, 0, 0, 0>>
E_NEAR == <<4, 12, 3, 0, 0>>
E_EDGE == <<3, 9, 3, 1, 0>>
E_FAR == <<1, 3, 2, 1, 1>>
ProfileEmbeddings == {E_ONE, E_NEAR, E_EDGE, E_FAR}
TurnEmbeddings == {E_ONE}
Names == {"Alice", "Bob"}
NoFile == <<>>
\* the content of <name>.npy while np.save has opened it and not finished
Partial == <<0>>
\* no enroll_speaker call is writing
NoWrite == [name |-> "", embedding |-> <<>>]

\* no time is reported with a line
NoTime == -1

\* no call of the alert manager or of an endpoint has finished yet
NoReply == [call |-> "", returned |-> "", status |-> 0, body |-> <<>>]

\* the websockets that may connect to /ws of the agentic backend
Conns == 1..MaxConns

\* no broadcast has been started
NoBroadcast ==
    [pc |-> "idle", index |-> 0, connection |-> 0, start |-> <<>>, sent |-> <<>>,
     untouched |-> TRUE, count |-> 0]

NoTurn ==
    [start |-> 0, end |-> 0, samples |-> 0, transcribed |-> FALSE,
     speaker |-> "", embedding |-> <<>>, seen |-> FALSE,
     rep_start |-> NoTime, rep_end |-> NoTime]

Init ==
    /\ prog \in {"capture", "realtime", "file", "ws", "alerts", "api", "manager",
                "monitor", "plan"}
    /\ q = <<>>
    /\ captured = 0
    /\ received = <<>>
    /\ pc = IF prog = "file" THEN "idle"
            ELSE IF prog \in {"capture", "realtime"} THEN "open" ELSE "none"
    /\ buffer = <<>>
    /\ chunk_idx = 0
    /\ sent = <<>>
    /\ rt_chunks = <<>>
    /\ tmp_wav = FALSE
    /\ results = <<>>
    /\ turn_no = 0
    /\ last_turn = NoTurn
    /\ disk = [n \in Names |-> NoFile]
    /\ enrolled_at = [n \in Names |-> 0]
    /\ n_enrolls = 0
    /\ speakers = <<>>
    /\ audio = <<>>
    /\ id_log = {}
    /\ writer = NoWrite
    /\ fault = ""
    /\ ws_pc = IF prog = "ws" THEN "receive" ELSE "none"
    /\ audio_data = <<>>
    /\ ws_count = 0
    /\ ws_requests = <<>>
    /\ ws_replies = <<>>
    /\ alerts = <<>>
    /\ alert_counter = 0
    /\ notified = <<>>
    /\ reply = NoReply
    /\ alert_manager = IF prog = "alerts" THEN "agent" ELSE "None"
    /\ active_connections = <<>>
    /\ conn_state = [c \in Conns |-> "new"]
    /\ bc = NoBroadcast
    /\ monitor = [connected |-> FALSE, session |-> "None", websocket |-> "None",
                  starting |-> 0, stopping |-> FALSE]
    /\ mon_sent = <<>>
    /\ mon_reply = [call |-> "", returned |-> ""]
    /\ mon_event = ""
    /\ plans = <<>>
    /\ pending = <<>>
    /\ now = 0

\* ------------------------------------------------------------ audio source
\* the frame of n samples the input stream delivers next
Frame(n) == [i \in 1..n |-> captured + i]

\* the input stream runs while the consumer is in its loop: inside the
\* `with sd.InputStream` block, or from stream.start() to the end of the process
StreamActive == pc \in {"get", "while", "diarize", "turns"}

q_full_at_one(queue) == Len(queue) >= 1

\* Queue.put blocks while the queue is full; with maxsize 0 it never is
q_full(queue) == Q_MAXSIZE > 0 /\ Len(queue) >= Q_MAXSIZE

q_put_front(queue, item) == <<item>> \o queue

\* Queue.put: the item goes to the tail of the queue
q_put(queue, item) == Append(queue, item)

\* callback / audio_callback: q.put(indata.copy())
Callback(n) ==
    /\ prog \in {"capture", "realtime"}
    /\ StreamActive
    /\ ~q_full(q)
    /\ captured + n <= MaxSamples
    /\ q' = q_put(q, Frame(n))
    /\ captured' = captured + n
    /\ UNCHANGED <<prog, serviceVars, received, pc, buffer, captureVars, realtimeVars, turnVars,
                   fileVars, fault>>

OpenIgnoringFailure(ok) == "get"

\* where the script goes after sd.InputStream(...): into its loop, or, when
\* the call raised, to its end: capture main catches the exception, prints
\* it and returns; the realtime script dies at module level, before main()
OpenOutcome(ok) == IF ok THEN "get" ELSE "terminated"

\* sd.InputStream(...) opens the input device (ok) or raises
OpenStream(ok) ==
    /\ prog \in {"capture", "realtime"}
    /\ pc = "open"
    /\ pc' = OpenOutcome(ok)
    /\ fault' = IF ok THEN fault ELSE "device"
    /\ UNCHANGED <<prog, serviceVars, streamVars, received, buffer, captureVars, realtimeVars,
                   turnVars, fileVars>>

\* Ctrl+C: KeyboardInterrupt is raised in the main thread, wherever the loop
\* is.  capture main leaves the with block and prints "Stopped by user.";
\* the realtime main calls stream.stop() and prints "Stopped.".  Neither
\* reads q or buffer again; the locals of a running process_chunk are gone.
KeyboardInterrupt ==
    /\ prog \in {"capture", "realtime"}
    /\ StreamActive
    /\ pc' = "stopped"
    /\ results' = <<>>
    /\ turn_no' = 0
    /\ last_turn' = NoTurn
    /\ UNCHANGED <<prog, serviceVars, streamVars, received, buffer, captureVars, realtimeVars,
                   fileVars, fault>>

\* ------------------------------------------- capture_and_translate.main
FILTERED_PHRASES == {"filtered"}
ApiResults == {<<>>, <<"text">>, <<"filtered">>, <<"text", "filtered">>}

\* what client.predict does: it raises, or it returns a result
ApiOutcomes ==
    {[raised |-> TRUE, result |-> <<>>]}
        \cup {[raised |-> FALSE, result |-> r] : r \in ApiResults}

\* should_display_result: a result is a sequence of phrases
should_display_result(result) ==
    IF result = <<>> THEN FALSE
    ELSE IF \E i \in 1..Len(result) : result[i] \in FILTERED_PHRASES THEN FALSE
    ELSE TRUE

\* audio_chunk = q.get(); buffer = np.concatenate((buffer, audio_chunk))
CapGet ==
    /\ prog = "capture"
    /\ pc = "get"
    /\ q # <<>>
    /\ buffer' = buffer \o Head(q)
    /\ received' = received \o Head(q)
    /\ q' = Tail(q)
    /\ pc' = "while"
    /\ UNCHANGED <<prog, serviceVars, captured, captureVars, realtimeVars, turnVars,
                   fileVars, fault>>

NextChunkIdxOnSuccess(idx, outcome) == IF outcome.raised THEN idx ELSE idx + 1

\* chunk_idx += 1 at the end of the pass, whatever the API call did
NextChunkIdx(idx, outcome) == idx + 1

\* how often client.predict is called for one chunk: once, in the try; when
\* it raises, the except clause prints the error and the pass goes on
ApiCalls(outcome) == 1

\* one pass of `while len(buffer) >= CHUNK_SAMPLES`
CapChunk(outcome) ==
    /\ prog = "capture"
    /\ pc = "while"
    /\ Len(buffer) >= CHUNK_SAMPLES
    /\ LET chunk == Take(buffer, CHUNK_SAMPLES)
           shown == IF outcome.raised THEN FALSE
                    ELSE should_display_result(outcome.result)
       IN  /\ buffer' = Drop(buffer, CHUNK_SAMPLES)
           /\ sent' = Append(sent, [idx |-> chunk_idx, chunk |-> chunk,
                                    outcome |-> outcome, shown |-> shown,
                                    calls |-> ApiCalls(outcome)])
           /\ chunk_idx' = NextChunkIdx(chunk_idx, outcome)
    /\ UNCHANGED <<prog, serviceVars, streamVars, received, pc, realtimeVars, turnVars,
                   fileVars, fault>>

\* the while condition is false: back to q.get()
CapWhileExit ==
    /\ prog = "capture"
    /\ pc = "while"
    /\ Len(buffer) < CHUNK_SAMPLES
    /\ pc' = "get"
    /\ UNCHANGED <<prog, serviceVars, streamVars, received, buffer, captureVars, realtimeVars, turnVars,
                   fileVars, fault>>

\* ------------------------------------------ local_realtime_transcribe.main
ClusterLabels == {"SPEAKER_00"}
\* the turns a diarizer can yield: start <= end, in ticks, with a cluster label
Turns ==
    {[start |-> s, end |-> s + d, speaker |-> c] :
        s \in 0..MaxTurnStart, d \in 0..MaxTurnLen, c \in ClusterLabels}

\* segment = audio[int(turn.start * sr) : int(turn.end * sr)]
Segment(samples, turn) == Slice(samples, ToSample(turn.start), ToSample(turn.end))

\* process_chunk: `if len(segment) < sample_rate // 2: continue`
RtTooShort(segment, sample_rate) == Len(segment) < sample_rate \div 2

\* the test `len(buffer) * chunk.shape[0] >= SAMPLE_RATE * CHUNK_DURATION`
RtEnough(buf, chunk) == Len(buf) * Len(chunk) >= SAMPLE_RATE * CHUNK_DURATION

RtAfterGetDetached(enough) == "get"

\* where main is after the test: inside process_chunk, called synchronously
\* when the test holds, or back at the top of the loop
RtAfterGet(enough) == IF enough THEN "diarize" ELSE "get"

\* chunk = audio_queue.get(); buffer.append(chunk); when the test holds,
\* audio_chunk = np.concatenate(buffer)[:N] and process_chunk is entered
\* (the temporary WAV file is written and the diarizer is called next)
RtGet ==
    /\ prog = "realtime"
    /\ pc = "get"
    /\ q # <<>>
    /\ LET chunk == Head(q)
           buf == Append(buffer, chunk)
       IN  /\ buffer' = buf
           /\ received' = received \o chunk
           /\ q' = Tail(q)
           /\ pc' = RtAfterGet(RtEnough(buf, chunk))
           /\ IF RtEnough(buf, chunk)
              THEN /\ rt_chunks' =
                        Append(rt_chunks, Take(Concat(buf), SAMPLE_RATE * CHUNK_DURATION))
                   /\ tmp_wav' = TRUE
              ELSE /\ rt_chunks' = rt_chunks
                   /\ tmp_wav' = tmp_wav
    /\ UNCHANGED <<prog, serviceVars, captured, captureVars, turnVars, fileVars, fault>>

\* diarization = pipeline(tmp_wav): it returns, or it raises and nothing
\* in main catches the exception
RtDiarize(raised) ==
    /\ prog = "realtime"
    /\ pc = "diarize"
    /\ pc' = IF raised THEN "crashed" ELSE "turns"
    /\ fault' = IF raised THEN "diarizer" ELSE fault
    /\ results' = <<>>
    /\ turn_no' = 0
    /\ UNCHANGED <<prog, serviceVars, streamVars, received, buffer, captureVars, realtimeVars,
                   last_turn, fileVars>>

\* the time process_chunk reports for a turn boundary of its chunk_no-th
\* chunk: "start": turn.start, "end": turn.end and {turn.start:.2f} in the
\* printed line, as the diarizer gave them for the temporary file
ReportedTime(chunk_no, ticks) == ticks

EmitFirst(lines, n) == <<n>> \o lines

\* results.append({...}) and the print of the segment's line (process_chunk),
\* the print of the segment's line (process_audio_file): the segment of the
\* n-th turn comes after the lines emitted so far
Emit(lines, n) == Append(lines, n)

\* one pass of `for turn, _, speaker in diarization.itertracks(...)`;
\* raised: whisper_model.transcribe raises
RtTurn(turn, raised) ==
    /\ prog = "realtime"
    /\ pc = "turns"
    /\ turn_no < MaxTurns
    /\ turn.start <= turn.end
    /\ turn_no > 0 => last_turn.start <= turn.start
    /\ LET flat == rt_chunks[Len(rt_chunks)]    \* audio = chunk.flatten()
           segment == Segment(flat, turn)
           short == RtTooShort(segment, SAMPLE_RATE)
       IN  /\ short => ~raised
           /\ turn_no' = turn_no + 1
           /\ last_turn' = [start |-> turn.start, end |-> turn.end,
                            samples |-> Len(segment),
                            transcribed |-> ~short,
                            speaker |-> turn.speaker, embedding |-> <<>>,
                            seen |-> TRUE,
                            rep_start |-> ReportedTime(Len(rt_chunks), turn.start),
                            rep_end |-> ReportedTime(Len(rt_chunks), turn.end)]
           /\ IF short THEN /\ results' = results
                            /\ pc' = pc
                            /\ fault' = fault
              ELSE IF raised THEN /\ results' = results
                                  /\ pc' = "crashed"
                                  /\ fault' = "transcriber"
              ELSE /\ results' = Emit(results, turn_no + 1)
                   /\ pc' = pc
                   /\ fault' = fault
    /\ UNCHANGED <<prog, serviceVars, streamVars, received, buffer, captureVars, realtimeVars, fileVars>>

RtLeftoverKeepsChunk(buf) == <<Concat(buf)>>

\* the leftover the loop keeps after process_chunk has returned
RtLeftover(buf) == <<Drop(Concat(buf), SAMPLE_RATE * CHUNK_DURATION)>>

\* the diarizer yields no further turn: os.remove(tmp_wav), return results,
\* buffer = [np.concatenate(buffer)[N:]]
RtReturn ==
    /\ prog = "realtime"
    /\ pc = "turns"
    /\ buffer' = RtLeftover(buffer)
    /\ results' = <<>>
    /\ turn_no' = 0
    /\ last_turn' = NoTurn
    /\ pc' = "get"
    /\ tmp_wav' = FALSE
    /\ UNCHANGED <<prog, serviceVars, streamVars, received, captureVars, rt_chunks, fileVars,
                   fault>>

\* ------------------------------- local_realtime_transcribe.py: registry
RECURSIVE DotTo(_, _, _)
DotTo(u, v, k) == IF k = 0 THEN 0 ELSE u[k] * v[k] + DotTo(u, v, k - 1)
Dot(u, v) == DotTo(u, v, Len(u))

RECURSIVE SqrtFrom(_, _)
SqrtFrom(r, n) == IF r * r >= n THEN r ELSE SqrtFrom(r + 1, n)

\* the Euclidean length of a vector (an integer for the vectors above)
Norm(v) == SqrtFrom(0, Dot(v, v))

\* scipy's cosine distance 1 - u.v / (|u| |v|), as the fraction num / den
cosine(u, v) ==
    LET uv == Norm(u) * Norm(v)
    IN  [num |-> uv - Dot(u, v), den |-> uv]

\* a < b for two fractions with positive denominators
Less(a, b) == a.num * b.den < b.num * a.den

\* threshold=0.7
THRESHOLD == [num |-> 7, den |-> 10]

\* the cosine distances of the embeddings of the model, computed once
CosineTable ==
    [u \in TurnEmbeddings \cup ProfileEmbeddings, v \in ProfileEmbeddings |->
        cosine(u, v)]

\* cdist([embedding], embeddings, metric="cosine")[0]
cdist(embedding, embeddings) ==
    [i \in 1..Len(embeddings) |-> CosineTable[embedding, embeddings[i]]]

argmax(dists) ==
    CHOOSE i \in 1..Len(dists) :
        /\ \A j \in 1..Len(dists) : ~Less(dists[i], dists[j])
        /\ \A j \in 1..(i - 1) : Less(dists[j], dists[i])

\* np.argmin: the first index that holds the smallest value
argmin(dists) ==
    CHOOSE i \in 1..Len(dists) :
        /\ \A j \in 1..Len(dists) : ~Less(dists[j], dists[i])
        /\ \A j \in 1..(i - 1) : Less(dists[i], dists[j])

AcceptsInclusive(dist, threshold) == ~Less(threshold, dist)

\* the test `dists[min_idx] < threshold`
Accepts(dist, threshold) == Less(dist, threshold)

\* identify_speaker without its `if not enrolled_speakers` guard: np.stack
\* of an empty list raises ValueError
identify_speaker_unguarded(embedding, enrolled_speakers, threshold) ==
    IF enrolled_speakers = <<>> THEN "ValueError"
    ELSE LET names == [i \in 1..Len(enrolled_speakers) |-> enrolled_speakers[i].name]
             embeddings ==
                 [i \in 1..Len(enrolled_speakers) |-> enrolled_speakers[i].embedding]
             dists == cdist(embedding, embeddings)
             min_idx == argmin(dists)
         IN  IF Accepts(dists[min_idx], threshold) THEN names[min_idx] ELSE "Unknown"

\* identify_speaker; enrolled_speakers is the dict as the sequence of its
\* items in insertion order
identify_speaker(embedding, enrolled_speakers, threshold) ==
    IF enrolled_speakers = <<>> THEN "Unknown"
    ELSE LET names == [i \in 1..Len(enrolled_speakers) |-> enrolled_speakers[i].name]
             embeddings ==
                 [i \in 1..Len(enrolled_speakers) |-> enrolled_speakers[i].embedding]
             dists == cdist(embedding, embeddings)
             min_idx == argmin(dists)
         IN  IF Accepts(dists[min_idx], threshold) THEN names[min_idx] ELSE "Unknown"

\* the names with a file in ENROLL_DIR
Enrolled(d) == {n \in Names : d[n] # NoFile}

\* the orders os.listdir can return the files of ENROLL_DIR in
Listings(d) ==
    {l \in [1..Cardinality(Enrolled(d)) -> Enrolled(d)] :
        \A i, j \in DOMAIN l : i # j => l[i] # l[j]}

\* f"{name}.npy": the file enroll_speaker saves the profile of name in; a
\* file name is the sequence of its stem and its suffix
FileName(name) == <<name, ".npy">>

\* fname.endswith(".npy")
EndsWithNpy(fname) == fname[Len(fname)] = ".npy"

\* fname[:-4]
NameOf(fname) == fname[1]

RECURSIVE DictOf(_, _)
\* the dict built by speakers[name] = embedding over the items, in order: a
\* key keeps the place of its first assignment and the value of its last
DictOf(items, k) ==
    IF k = 0 THEN <<>>
    ELSE LET before == DictOf(items, k - 1)
             item == items[k]
         IN  IF \E i \in 1..Len(before) : before[i].name = item.name
             THEN [i \in 1..Len(before) |->
                      IF before[i].name = item.name THEN item ELSE before[i]]
             ELSE Append(before, item)

load_all_but_last(d, listing) ==
    LET kept == SubSeq(listing, 1, Len(listing) - 1)
    IN  DictOf([i \in 1..Len(kept) |->
                  [name |-> NameOf(FileName(kept[i])), embedding |-> d[kept[i]]]],
               Len(kept))

\* load_enrolled_speakers, for the order os.listdir returned the files in
\* (listing holds the names whose files exist; each file ends with ".npy")
load_enrolled_speakers(d, listing) ==
    LET kept == SelectSeq(listing, LAMBDA n : EndsWithNpy(FileName(n)))
    IN  DictOf([i \in 1..Len(kept) |->
                  [name |-> NameOf(FileName(kept[i])), embedding |-> d[kept[i]]]],
               Len(kept))

\* enroll_speaker up to the middle of np.save: the embedding is computed,
\* <name>.npy is opened for writing (created or truncated) and is not yet
\* complete.  The caller is outside process_audio_file and takes no lock;
\* process_audio_file reads ENROLL_DIR only when it starts, so the writes
\* that matter to it are those made while no run is under way.
Enroll(name, embedding) ==
    /\ prog = "file"
    /\ pc = "idle"
    /\ writer = NoWrite
    /\ n_enrolls < MaxEnroll
    /\ disk' = [disk EXCEPT ![name] = Partial]
    /\ writer' = [name |-> name, embedding |-> embedding]
    /\ n_enrolls' = n_enrolls + 1
    /\ id_log' = {}
    /\ UNCHANGED <<prog, serviceVars, streamVars, received, pc, buffer, captureVars, realtimeVars,
                   turnVars, enrolled_at, speakers, audio, fault>>

\* np.save finishes: <name>.npy holds the embedding, enroll_speaker returns
EnrollDone ==
    /\ prog = "file"
    /\ pc = "idle"
    /\ writer # NoWrite
    /\ disk' = [disk EXCEPT ![writer.name] = writer.embedding]
    /\ enrolled_at' = [enrolled_at EXCEPT ![writer.name] = n_enrolls]
    /\ writer' = NoWrite
    /\ UNCHANGED <<prog, serviceVars, streamVars, received, pc, buffer, captureVars, realtimeVars,
                   turnVars, n_enrolls, speakers, audio, id_log, fault>>

\* ------------------- local_realtime_transcribe.py: process_audio_file
\* lengths of the audio file, in samples
FileLengths == {1, MaxSamples}

\* np.load of a file np.save has not finished writing raises
LoadRaises(d, listing) == \E i \in 1..Len(listing) : d[listing[i]] = Partial

\* process_audio_file up to its loop: the registry is loaded, the diarizer
\* runs (raised: it raises) and the audio is read.  Nothing catches what
\* np.load or the diarizer raises.
FileBegin(listing, n, raised) ==
    /\ prog = "file"
    /\ pc = "idle"
    /\ LoadRaises(disk, listing) => (~raised /\ n = 1)
    /\ IF LoadRaises(disk, listing)
       THEN /\ speakers' = <<>>
            /\ audio' = <<>>
            /\ pc' = "crashed"
            /\ fault' = "registry"
       ELSE /\ speakers' = load_enrolled_speakers(disk, listing)
            /\ audio' = IF raised THEN <<>> ELSE [i \in 1..n |-> i]
            /\ pc' = IF raised THEN "crashed" ELSE "turns"
            /\ fault' = IF raised THEN "diarizer" ELSE fault
    /\ results' = <<>>
    /\ turn_no' = 0
    /\ last_turn' = NoTurn
    /\ UNCHANGED <<prog, serviceVars, streamVars, received, buffer, captureVars, realtimeVars,
                   registryVars, id_log>>

\* process_audio_file: `if len(segment) < sr: continue`
FileTooShort(segment, sr) == Len(segment) < sr

\* one pass of the loop over the turns; embedding is what the encoder
\* returns for the segment, raised: whisper_model.transcribe raises
FileTurn(turn, embedding, raised) ==
    /\ prog = "file"
    /\ pc = "turns"
    /\ turn_no < MaxTurns
    /\ turn_no > 0 => last_turn.start <= turn.start
    /\ LET segment == Segment(audio, turn)
           short == FileTooShort(segment, SAMPLE_RATE)
           speaker_name == identify_speaker(embedding, speakers, THRESHOLD)
       IN  /\ short => (~raised /\ embedding = E_ONE)
           /\ turn_no' = turn_no + 1
           /\ last_turn' = [start |-> turn.start, end |-> turn.end,
                            samples |-> Len(segment),
                            transcribed |-> ~short,
                            speaker |-> IF short THEN "" ELSE speaker_name,
                            embedding |-> IF short THEN <<>> ELSE embedding,
                            seen |-> TRUE,
                            rep_start |-> NoTime, rep_end |-> NoTime]
           /\ id_log' = IF short THEN id_log
                        ELSE id_log \cup {[embedding |-> embedding,
                                           label |-> speaker_name]}
           /\ results' = IF short \/ raised THEN results
                         ELSE Emit(results, turn_no + 1)
           /\ pc' = IF ~short /\ raised THEN "crashed" ELSE pc
           /\ fault' = IF ~short /\ raised THEN "transcriber" ELSE fault
    /\ UNCHANGED <<prog, serviceVars, streamVars, received, buffer, captureVars, realtimeVars,
                   registryVars, speakers, audio>>

\* the diarizer yields no further turn: process_audio_file returns
FileEnd ==
    /\ prog = "file"
    /\ pc = "turns"
    /\ pc' = "idle"
    /\ speakers' = <<>>
    /\ audio' = <<>>
    /\ results' = <<>>
    /\ turn_no' = 0
    /\ last_turn' = NoTurn
    /\ UNCHANGED <<prog, serviceVars, streamVars, received, buffer, captureVars, realtimeVars,
                   registryVars, id_log, fault>>

\* ------------------------------------ backend/main.py: websocket_endpoint
\* `if len(audio_data) > 16000 * 5`
WsOver(data) == Len(data) > WS_BUFFER_BYTES

\* chunk = await websocket.receive_bytes(); audio_data.extend(chunk); when
\* the test holds the temporary file is written and the request is next
WsReceive(n) ==
    /\ prog = "ws"
    /\ ws_pc = "receive"
    /\ ws_count + n <= MaxBytes
    /\ LET data == audio_data \o [i \in 1..n |-> ws_count + i]
       IN  /\ audio_data' = data
           /\ ws_pc' = IF WsOver(data) THEN "post" ELSE "receive"
    /\ ws_count' = ws_count + n
    /\ UNCHANGED <<prog, pc, streamVars, received, buffer, captureVars, realtimeVars,
                   turnVars, fileVars, fault, ws_requests, ws_replies, alertVars, agenticVars>>

\* the client goes away while the endpoint waits in receive_bytes:
\* WebSocketDisconnect is raised and passed over
WsDisconnect ==
    /\ prog = "ws"
    /\ ws_pc = "receive"
    /\ ws_pc' = "closed"
    /\ UNCHANGED <<prog, pc, streamVars, received, buffer, captureVars, realtimeVars,
                   turnVars, fileVars, fault, audio_data, ws_count, ws_requests,
                   ws_replies, alertVars, agenticVars>>

\* what client.post does: a response with status 200, a response with
\* another status, or an exception (the service cannot be reached, or the
\* body of a 200 response is no JSON)
WsResponses == {"200", "other", "raised"}

\* the text sent for a response
WsReply(response) ==
    IF response = "200" THEN "transcript" ELSE "[Error: Transcription failed]"

\* the request and what follows it: client.post sends the temporary file,
\* send_text sends the reply (delivered, or the client is gone and it
\* raises), os.remove, audio_data = bytearray().  The endpoint catches
\* WebSocketDisconnect only.
WsPost(response, delivered) ==
    /\ prog = "ws"
    /\ ws_pc = "post"
    /\ ws_requests' = Append(ws_requests, audio_data)
    /\ response = "raised" => delivered
    /\ IF response = "raised"
       THEN /\ ws_pc' = "crashed"
            /\ UNCHANGED <<audio_data, ws_replies>>
       ELSE IF ~delivered
       THEN /\ ws_pc' = "closed"
            /\ UNCHANGED <<audio_data, ws_replies>>
       ELSE /\ ws_replies' = Append(ws_replies, WsReply(response))
            /\ audio_data' = <<>>
            /\ ws_pc' = "receive"
    /\ UNCHANGED <<prog, pc, streamVars, received, buffer, captureVars, realtimeVars,
                   turnVars, fileVars, fault, ws_count, alertVars, agenticVars>>

\* ----------------------------- alert_manager_agent.py: AlertManagerAgent
AlertSpeakers == {"S1", "S2"}
\* transcripts, as the sets of their lower-case words
Transcripts == {{"w1"}, {"w1", "w2"}}
\* confidence scores, in tenths
Confidences == {5, 6}
Violations ==
    [speaker_id : AlertSpeakers, transcript_segment : Transcripts,
     confidence_score : Confidences]

\* class AlertSeverity and class AlertType: the values of the members
AlertSeverities == {"low", "medium", "high", "critical"}
AlertTypes ==
    {"compliance_violation", "policy_breach", "regulatory_risk",
     "ethical_concern", "operational_issue"}

\* what `await crew.kickoff()` hands back, as far as process_violation
\* reads it: the keys 'severity' and 'alert_type', "" for a missing key
NoKeys == [severity |-> "", alert_type |-> ""]
CrewResults ==
    {NoKeys,
     [severity |-> "critical", alert_type |-> "ethical_concern"],
     [severity |-> "urgent", alert_type |-> "policy_breach"]}

\* result.get('severity', AlertSeverity.LOW.value)
SeverityOf(result) == IF result.severity = "" THEN "low" ELSE result.severity
\* result.get('alert_type', AlertType.COMPLIANCE_VIOLATION.value)
TypeOf(result) ==
    IF result.alert_type = "" THEN "compliance_violation" ELSE result.alert_type
\* AlertType(...) or AlertSeverity(...) raises ValueError
EnumRaises(result) ==
    SeverityOf(result) \notin AlertSeverities \/ TypeOf(result) \notin AlertTypes

\* how a call that waited at crew.kickoff() goes on: the crew run raises,
\* the alert is stored and the callback returns, or the alert is stored
\* and the callback raises
PvOutcomes == {"raised", "stored", "callback_raised"}

\* process_violation returned None
PvNone == [call |-> "process_violation", returned |-> "None", status |-> 0,
           body |-> <<>>]

\* _is_similar_content: Jaccard similarity of the word sets >= 0.8
is_similar_content(words1, words2) ==
    IF words1 = {} \/ words2 = {} THEN FALSE
    ELSE 5 * Cardinality(words1 \cap words2) >= 4 * Cardinality(words1 \cup words2)

\* (current_time - created_at).seconds
Seconds(current_time, created_at) == (current_time - created_at) % SECONDS_PER_DAY

\* the stored alerts of a speaker
AlertsOf(stored, speaker_id) ==
    {k \in 1..Len(stored) : stored[k].speaker_id = speaker_id}

\* _should_suppress_alert (suppress_duplicates is True)
should_suppress_alert(v, stored, current_time) ==
    IF v.confidence_score < SEVERITY_LOW THEN TRUE
    ELSE IF \E k \in AlertsOf(stored, v.speaker_id) :
                /\ Seconds(current_time, stored[k].created_at) < DUPLICATE_TIME_WINDOW
                /\ is_similar_content(v.transcript_segment, stored[k].transcript_segment)
         THEN TRUE
    ELSE Cardinality(AlertsOf(stored, v.speaker_id)) >= MAX_ALERTS_PER_SPEAKER

\* the calls stored or in flight that the run is cut off at
CallBound == IF prog = "api" THEN MaxStored ELSE MaxCalls

AlertIdFixed(counter) == [prefix |-> "alert_", n |-> 0]

\* f"alert_{self.alert_counter}"
AlertId(counter) == [prefix |-> "alert_", n |-> counter]

\* process_violation up to `await crew.kickoff()`: a suppressed call
\* returns None, another one builds its crew and waits
PvBegin(v) ==
    /\ prog \in {"alerts", "api"}
    /\ alert_manager = "agent"
    /\ Len(alerts) + Len(pending) < CallBound
    /\ IF should_suppress_alert(v, alerts, now)
       THEN /\ reply' = PvNone
            /\ UNCHANGED pending
       ELSE /\ pending' = Append(pending,
                    [speaker_id |-> v.speaker_id,
                     transcript_segment |-> v.transcript_segment])
            /\ UNCHANGED reply
    /\ UNCHANGED <<prog, pc, streamVars, received, buffer, captureVars, realtimeVars,
                   turnVars, fileVars, fault, wsVars, agenticVars, alerts, alert_counter, now,
                   notified, alert_manager>>

\* the i-th waiting call resumes: the crew run raised (or ComplianceAlert
\* rejected its result) and the call prints the error and returns None;
\* or the alert is built, appended to self.alerts, alert_counter is
\* advanced and alert_callback is awaited: the alert is returned, or None
\* when the callback raised
PvFinish(i, outcome, result) ==
    /\ prog \in {"alerts", "api"}
    /\ i \in 1..Len(pending)
    /\ pending' = SubSeq(pending, 1, i - 1) \o SubSeq(pending, i + 1, Len(pending))
    /\ IF outcome = "raised" \/ EnumRaises(result)
       THEN /\ reply' = PvNone
            /\ UNCHANGED <<alerts, alert_counter, notified>>
       ELSE /\ alerts' = Append(alerts,
                    [id |-> AlertId(alert_counter),
                     speaker_id |-> pending[i].speaker_id,
                     transcript_segment |-> pending[i].transcript_segment,
                     alert_type |-> TypeOf(result),
                     severity |-> SeverityOf(result),
                     created_at |-> now,
                     acknowledged |-> FALSE,
                     acknowledged_by |-> "None",
                     acknowledged_at |-> NoTime])
            /\ alert_counter' = alert_counter + 1
            /\ notified' = Append(notified, AlertId(alert_counter))
            /\ reply' = IF outcome = "callback_raised" THEN PvNone
                        ELSE [call |-> "process_violation", returned |-> "alert",
                              status |-> 0, body |-> <<AlertId(alert_counter)>>]
    /\ UNCHANGED <<prog, pc, streamVars, received, buffer, captureVars, realtimeVars,
                   turnVars, fileVars, fault, wsVars, agenticVars, now, alert_manager>>

\* time passes
AlertTick ==
    /\ prog = "alerts"
    /\ now < MaxTime
    /\ now' = now + 1
    /\ UNCHANGED <<prog, pc, streamVars, received, buffer, captureVars, realtimeVars,
                   turnVars, fileVars, fault, wsVars, agenticVars, alerts, alert_counter, pending,
                   notified, reply, alert_manager>>

\* the position of the first alert with the id, 0 when there is none
RECURSIVE FirstWithId(_, _, _)
FirstWithId(stored, id, k) ==
    IF k > Len(stored) THEN 0
    ELSE IF stored[k].id = id THEN k
    ELSE FirstWithId(stored, id, k + 1)

acknowledge_every(stored, id, who, t) ==
    [k \in 1..Len(stored) |->
        [stored[k] EXCEPT !.acknowledged = TRUE, !.acknowledged_by = who,
                          !.acknowledged_at = t]]

\* acknowledge_alert: self.alerts after the call
acknowledge_alert(stored, id, who, t) ==
    LET k == FirstWithId(stored, id, 1)
    IN  IF k = 0 THEN stored
        ELSE [stored EXCEPT ![k] =
                 [@ EXCEPT !.acknowledged = TRUE, !.acknowledged_by = who,
                           !.acknowledged_at = t]]

\* acknowledge_alert: the value returned
acknowledge_returns(stored, id) == FirstWithId(stored, id, 1) # 0

UnacknowledgedOrNot(stored) == 1..Len(stored)

\* [alert for alert in self.alerts if not alert.acknowledged]
Unacknowledged(stored) == {k \in 1..Len(stored) : ~stored[k].acknowledged}

\* get_alert_statistics
get_alert_statistics(stored) ==
    [total_alerts |-> Len(stored),
     severity_distribution |->
        [s \in AlertSeverities |->
            Cardinality({k \in 1..Len(stored) : stored[k].severity = s})],
     type_distribution |->
        [t \in AlertTypes |->
            Cardinality({k \in 1..Len(stored) : stored[k].alert_type = t})],
     acknowledged_count |->
        Cardinality({k \in 1..Len(stored) : stored[k].acknowledged}),
     pending_count |-> Cardinality(Unacknowledged(stored))]

\* get_alerts(severity_filter, None, None): the ids of the alerts listed
RECURSIVE get_alerts(_, _)
get_alerts(stored, severity_filter) ==
    IF stored = <<>> THEN <<>>
    ELSE (IF severity_filter = "" \/ Head(stored).severity = severity_filter
          THEN <<Head(stored).id>> ELSE <<>>)
         \o get_alerts(Tail(stored), severity_filter)

\* --------------------- agentic backend/main.py: startup, alert endpoints
\* the violations handed to the alert manager by /api/process-transcript
ApiViolations ==
    {v \in Violations : v.transcript_segment = {"w1"} /\ v.confidence_score = 6}
\* the alert_id of a request: the ids given out and one never given out
AlertIds == {AlertId(n) : n \in 0..MaxStored}
\* the acknowledged_by of a request
Users == {"ann", "bob"}
\* the severity parameter of GET /api/alerts, "" when it is left out
SeverityParams == {"", "critical", "urgent"}

\* `except Exception as e: raise HTTPException(status_code=500, ...)`
\* around the body of an endpoint: HTTPException is an Exception, so the
\* one raised in the body is caught and replaced as well
ExceptException(status) == 500

\* the status of the response of POST /api/alerts/{alert_id}/acknowledge
acknowledge_status(manager, success) ==
    IF manager = "None" THEN 500
    ELSE IF ~success THEN ExceptException(404)
    ELSE 200

\* the status of the response of GET /api/alerts
get_alerts_status(manager, severity) ==
    IF manager = "None" THEN 500
    ELSE IF severity # "" /\ severity \notin AlertSeverities THEN ExceptException(400)
    ELSE 200

\* startup_event: the agents are made
Startup ==
    /\ prog = "api"
    /\ alert_manager = "None"
    /\ alert_manager' = "agent"
    /\ UNCHANGED <<prog, pc, streamVars, received, buffer, captureVars, realtimeVars,
                   turnVars, fileVars, fault, wsVars, agenticVars, alerts, alert_counter, pending,
                   now, notified, reply>>

\* POST /api/alerts/{alert_id}/acknowledge
HttpAcknowledge(alert_id, who) ==
    /\ prog = "api"
    /\ IF alert_manager = "None"
       THEN /\ reply' = [call |-> "acknowledge", returned |-> "", body |-> <<>>,
                         status |-> acknowledge_status(alert_manager, FALSE)]
            /\ UNCHANGED alerts
       ELSE /\ alerts' = acknowledge_alert(alerts, alert_id, who, now)
            /\ reply' =
                 [call |-> "acknowledge",
                  returned |-> IF acknowledge_returns(alerts, alert_id)
                               THEN "True" ELSE "False",
                  body |-> <<alert_id>>,
                  status |-> acknowledge_status(alert_manager,
                                 acknowledge_returns(alerts, alert_id))]
    /\ UNCHANGED <<prog, pc, streamVars, received, buffer, captureVars, realtimeVars,
                   turnVars, fileVars, fault, wsVars, agenticVars, alert_counter, pending, now,
                   notified, alert_manager>>

\* GET /api/alerts?severity=...
HttpGetAlerts(severity) ==
    /\ prog = "api"
    /\ reply' =
         [call |-> "get_alerts", returned |-> severity,
          status |-> get_alerts_status(alert_manager, severity),
          body |-> IF get_alerts_status(alert_manager, severity) = 200
                   THEN get_alerts(alerts, severity) ELSE <<>>]
    /\ UNCHANGED <<prog, pc, streamVars, received, buffer, captureVars, realtimeVars,
                   turnVars, fileVars, fault, wsVars, agenticVars, alerts, alert_counter, pending,
                   now, notified, alert_manager>>

\* GET /api/alerts/statistics
HttpStatistics ==
    /\ prog = "api"
    /\ reply' =
         [call |-> "statistics", returned |-> "",
          status |-> IF alert_manager = "None" THEN 500 ELSE 200,
          body |-> IF alert_manager = "None" THEN <<>>
                   ELSE <<get_alert_statistics(alerts)>>]
    /\ UNCHANGED <<prog, pc, streamVars, received, buffer, captureVars, realtimeVars,
                   turnVars, fileVars, fault, wsVars, agenticVars, alerts, alert_counter, pending,
                   now, notified, alert_manager>>

\* ------------------- agentic backend/main.py: ConnectionManager, /ws
\* is the connection in the list
InList(list, c) == \E k \in 1..Len(list) : list[k] = c

RECURSIVE Remove(_, _)
\* list.remove(c): the list without the first occurrence of c
Remove(list, c) ==
    IF list = <<>> THEN <<>>
    ELSE IF Head(list) = c THEN Tail(list)
    ELSE <<Head(list)>> \o Remove(Tail(list), c)

\* a connect or disconnect changes the list under a broadcast that has
\* begun
Touched(b) == IF b.pc = "idle" THEN b ELSE [b EXCEPT !.untouched = FALSE]

\* websocket_endpoint up to the loop: manager.connect accepts the socket
\* and appends it
Connect(c) ==
    /\ prog = "manager"
    /\ conn_state[c] = "new"
    /\ conn_state' = [conn_state EXCEPT ![c] = "open"]
    /\ active_connections' = Append(active_connections, c)
    /\ bc' = Touched(bc)
    /\ UNCHANGED <<prog, scriptVars, wsVars, alertVars, monitorVars, plans>>

\* the client of an open connection goes away; its handler is still
\* waiting in receive_text
ClientLeaves(c) ==
    /\ prog = "manager"
    /\ conn_state[c] = "open"
    /\ conn_state' = [conn_state EXCEPT ![c] = "gone"]
    /\ UNCHANGED <<prog, scriptVars, wsVars, alertVars, monitorVars, plans, active_connections, bc>>

\* receive_text raises WebSocketDisconnect in the handler, which calls
\* manager.disconnect: list.remove raises ValueError when the connection
\* is not in the list
Disconnect(c) ==
    /\ prog = "manager"
    /\ conn_state[c] = "gone"
    /\ IF InList(active_connections, c)
       THEN /\ active_connections' = Remove(active_connections, c)
            /\ conn_state' = [conn_state EXCEPT ![c] = "closed"]
            /\ bc' = Touched(bc)
       ELSE /\ conn_state' = [conn_state EXCEPT ![c] = "error"]
            /\ UNCHANGED <<active_connections, bc>>
    /\ UNCHANGED <<prog, scriptVars, wsVars, alertVars, monitorVars, plans>>

\* manager.broadcast is called: the for loop makes its list iterator
BcStart ==
    /\ prog = "manager"
    /\ bc.pc \in {"idle", "done", "raised"}
    /\ bc.count < MaxBroadcasts
    /\ bc' = [pc |-> "iter", index |-> 0, connection |-> 0,
              start |-> active_connections, sent |-> <<>>, untouched |-> TRUE,
              count |-> bc.count + 1]
    /\ UNCHANGED <<prog, scriptVars, wsVars, alertVars, monitorVars, plans, active_connections, conn_state>>

\* `for connection in self.active_connections`: the iterator hands out the
\* element at its index and moves on, or the loop ends when the index has
\* reached the length the list has now
BcNext ==
    /\ prog = "manager"
    /\ bc.pc = "iter"
    /\ bc' = IF bc.index < Len(active_connections)
             THEN [bc EXCEPT !.pc = "send", !.index = @ + 1,
                             !.connection = active_connections[bc.index + 1]]
             ELSE [bc EXCEPT !.pc = "done"]
    /\ UNCHANGED <<prog, scriptVars, wsVars, alertVars, monitorVars, plans, active_connections, conn_state>>

\* `await connection.send_text(message)` ends: it raises when the client
\* has gone, and the except branch removes the connection from the list
BcSend ==
    /\ prog = "manager"
    /\ bc.pc = "send"
    /\ LET ok == conn_state[bc.connection] = "open"
           sends == Append(bc.sent, [connection |-> bc.connection, ok |-> ok])
       IN  IF ok
           THEN /\ bc' = [bc EXCEPT !.pc = "iter", !.sent = sends]
                /\ UNCHANGED active_connections
           ELSE IF InList(active_connections, bc.connection)
           THEN /\ bc' = [bc EXCEPT !.pc = "iter", !.sent = sends]
                /\ active_connections' = Remove(active_connections, bc.connection)
           ELSE /\ bc' = [bc EXCEPT !.pc = "raised", !.sent = sends]
                /\ UNCHANGED active_connections
    /\ UNCHANGED <<prog, scriptVars, wsVars, alertVars, monitorVars, plans, conn_state>>

\* --------------- integrate_with_transcription.py: ComplianceMonitor
\* what the health check of start() can give: a response with status 200,
\* a response with another status, or an exception
HealthOutcomes == {"200", "other", "raised"}

HealthAlways(outcome) == TRUE

\* `if response.status == 200`
HealthOk(outcome) == outcome = "200"

\* close() of a websocket or session that has been made
Closed(handle) == IF handle = "None" THEN "None" ELSE "closed"

\* start() up to the health check: the session is made and the request is
\* under way
StartBegin ==
    /\ prog = "monitor"
    /\ monitor.starting < MaxStarts
    /\ monitor' = [monitor EXCEPT !.session = "open", !.starting = @ + 1]
    /\ UNCHANGED <<prog, scriptVars, wsVars, alertVars, managerVars, plans,
                   mon_sent, mon_reply, mon_event>>

\* the health check of a start() ends: with status 200 _connected is set
\* and the websocket is connected (a failure there is logged only); with
\* another status or an exception _connected is cleared
StartEnd(outcome, ws_ok) ==
    /\ prog = "monitor"
    /\ monitor.starting > 0
    /\ monitor.session = "closed" => outcome = "raised"
    /\ ~HealthOk(outcome) => ws_ok
    /\ monitor' =
         [monitor EXCEPT
            !.starting = @ - 1,
            !.connected = (outcome # "raised" /\ HealthOk(outcome)),
            !.websocket = IF outcome # "raised" /\ HealthOk(outcome)
                             /\ ws_ok /\ monitor.session = "open"
                          THEN "open" ELSE @]
    /\ mon_event' = IF outcome = "200" THEN "health 200" ELSE "health failed"
    /\ UNCHANGED <<prog, scriptVars, wsVars, alertVars, managerVars, plans,
                   mon_sent, mon_reply>>

\* stop() up to its last await: the websocket and the session are closed
StopBegin ==
    /\ prog = "monitor"
    /\ ~monitor.stopping
    /\ monitor' = [monitor EXCEPT !.stopping = TRUE,
                                  !.websocket = Closed(@), !.session = Closed(@)]
    /\ UNCHANGED <<prog, scriptVars, wsVars, alertVars, managerVars, plans,
                   mon_sent, mon_reply, mon_event>>

\* stop() goes on after session.close(): self.connected = False
StopEnd ==
    /\ prog = "monitor"
    /\ monitor.stopping
    /\ monitor' = [monitor EXCEPT !.stopping = FALSE, !.connected = FALSE]
    /\ mon_event' = "stop"
    /\ UNCHANGED <<prog, scriptVars, wsVars, alertVars, managerVars, plans,
                   mon_sent, mon_reply>>

\* process_segment and upload_document: without _connected nothing is
\* sent; otherwise the request is posted on the session and its JSON is
\* returned, or the error text when the post raises (it does on a closed
\* session)
Post(call, raised) ==
    /\ prog = "monitor"
    /\ Len(mon_sent) < MaxPosts
    /\ monitor.session = "closed" => raised
    /\ IF ~monitor.connected
       THEN /\ mon_reply' = [call |-> call, returned |-> "Not connected"]
            /\ UNCHANGED mon_sent
       ELSE /\ mon_sent' = IF monitor.session = "open"
                           THEN Append(mon_sent, call) ELSE mon_sent
            /\ mon_reply' = [call |-> call,
                             returned |-> IF raised THEN "str(e)" ELSE "result"]
    /\ UNCHANGED <<prog, scriptVars, wsVars, alertVars, managerVars, plans,
                   monitor, mon_event>>

\* ---------------------- alert_manager_agent.py: _plan_actions_tool
\* the members of class AlertType, by name
AlertTypeMembers ==
    [COMPLIANCE_VIOLATION |-> "compliance_violation",
     POLICY_BREACH |-> "policy_breach",
     REGULATORY_RISK |-> "regulatory_risk",
     ETHICAL_CONCERN |-> "ethical_concern",
     OPERATIONAL_ISSUE |-> "operational_issue"]

\* AlertType.<name> raises AttributeError
NoMember(name) == name \notin DOMAIN AlertTypeMembers

\* json.dumps({"error": str(e)})
PlanError == [kind |-> "error", action_required |-> FALSE, actions |-> <<>>,
              priority |-> "", timeline |-> ""]

\* action_required and actions after the severity branches
SeverityPlan(severity) ==
    IF severity \in {"critical", "high"}
    THEN [action_required |-> TRUE,
          actions |-> <<"Immediate review of the violation",
                        "Consult with legal/compliance team",
                        "Document the incident",
                        "Assess potential regulatory impact">>
                      \o (IF severity = "critical"
                          THEN <<"Notify senior management immediately",
                                 "Consider external legal counsel",
                                 "Prepare regulatory notification if required">>
                          ELSE <<>>)]
    ELSE IF severity = "medium"
    THEN [action_required |-> TRUE,
          actions |-> <<"Review the compliance concern",
                        "Monitor for similar issues",
                        "Update relevant policies if needed">>]
    ELSE [action_required |-> FALSE,
          actions |-> <<"Monitor for escalation", "Document for future reference">>]

\* a type-specific branch has raised AttributeError
TypeRaised == [raised |-> TRUE, actions |-> <<>>]

\* the type-specific branches: the actions added, or raised when a
\* comparison that is reached names a missing member
TypeActions(alert_type) ==
    IF NoMember("ETHICAL_CONCERN") THEN TypeRaised
    ELSE IF alert_type = AlertTypeMembers["ETHICAL_CONCERN"]
    THEN [raised |-> FALSE, actions |-> <<"Review ethical guidelines and training">>]
    ELSE IF NoMember("FINANCIAL") THEN TypeRaised
    ELSE IF alert_type = AlertTypeMembers["FINANCIAL"]
    THEN [raised |-> FALSE, actions |-> <<"Review financial controls and procedures">>]
    ELSE IF NoMember("OPERATIONAL_ISSUE") THEN TypeRaised
    ELSE IF alert_type = AlertTypeMembers["OPERATIONAL_ISSUE"]
    THEN [raised |-> FALSE,
          actions |-> <<"Review operational procedures and safety protocols">>]
    ELSE [raised |-> FALSE, actions |-> <<>>]

\* _plan_actions_tool for an alert_data with the two keys
plan_actions_tool(severity, alert_type) ==
    IF TypeActions(alert_type).raised THEN PlanError
    ELSE [kind |-> "plan",
          action_required |-> SeverityPlan(severity).action_required,
          actions |-> SeverityPlan(severity).actions \o TypeActions(alert_type).actions,
          priority |-> severity,
          timeline |-> IF severity \in {"critical", "high"}
                       THEN "immediate" ELSE "within 24 hours"]

\* the tool is called for an alert
PlanActions(severity, alert_type) ==
    /\ prog = "plan"
    /\ Len(plans) < MaxPlans
    /\ plans' = Append(plans,
                    [severity |-> severity, alert_type |-> alert_type,
                     plan |-> plan_actions_tool(severity, alert_type)])
    /\ UNCHANGED <<prog, scriptVars, wsVars, alertVars, managerVars, monitorVars>>

\* the capture loop and the realtime loop, each with the audio callback
NextStream ==
    \/ \E ok \in BOOLEAN : OpenStream(ok)
    \/ \E n \in 1..MaxFrame : Callback(n)
    \/ KeyboardInterrupt
    \/ CapGet
    \/ \E outcome \in ApiOutcomes : CapChunk(outcome)
    \/ CapWhileExit
    \/ RtGet
    \/ \E raised \in BOOLEAN : RtDiarize(raised)
    \/ \E turn \in Turns, raised \in BOOLEAN : RtTurn(turn, raised)
    \/ RtReturn

\* enrollment and the file pipeline
NextFile ==
    \/ \E name \in Names, embedding \in ProfileEmbeddings : Enroll(name, embedding)
    \/ EnrollDone
    \/ \E listing \in Listings(disk), n \in FileLengths, raised \in BOOLEAN :
            FileBegin(listing, n, raised)
    \/ \E turn \in Turns, embedding \in TurnEmbeddings, raised \in BOOLEAN :
            FileTurn(turn, embedding, raised)
    \/ FileEnd

\* one connection to the websocket endpoint
NextWs ==
    \/ \E n \in 0..MaxMessage : WsReceive(n)
    \/ WsDisconnect
    \/ \E response \in WsResponses, delivered \in BOOLEAN : WsPost(response, delivered)

\* the calls made to one AlertManagerAgent; the crew's result names no
\* severity and no alert type
NextAlerts ==
    \/ \E v \in Violations : PvBegin(v)
    \/ \E i \in 1..MaxCalls, outcome \in PvOutcomes : PvFinish(i, outcome, NoKeys)
    \/ AlertTick

\* the application of agentic backend/main.py: startup, violations handed
\* to the alert manager, and the alert endpoints
NextApi ==
    \/ Startup
    \/ \E v \in ApiViolations : PvBegin(v)
    \/ \E i \in 1..MaxCalls, outcome \in PvOutcomes, result \in CrewResults :
            PvFinish(i, outcome, result)
    \/ \E alert_id \in AlertIds, who \in Users : HttpAcknowledge(alert_id, who)
    \/ \E severity \in SeverityParams : HttpGetAlerts(severity)
    \/ HttpStatistics

\* the websocket clients of the application and the broadcasts to them
NextManager ==
    \/ \E c \in Conns : Connect(c)
    \/ \E c \in Conns : ClientLeaves(c)
    \/ \E c \in Conns : Disconnect(c)
    \/ BcStart
    \/ BcNext
    \/ BcSend

\* the calls made to one ComplianceMonitor
NextMonitor ==
    \/ StartBegin
    \/ \E outcome \in HealthOutcomes, ws_ok \in BOOLEAN : StartEnd(outcome, ws_ok)
    \/ StopBegin
    \/ StopEnd
    \/ \E call \in {"process_segment", "upload_document"}, raised \in BOOLEAN :
            Post(call, raised)

\* the calls of the action planning tool
NextPlan ==
    \E severity \in AlertSeverities, alert_type \in AlertTypes :
        PlanActions(severity, alert_type)

Next ==
    \/ NextStream \/ NextFile \/ NextWs \/ NextAlerts \/ NextApi \/ NextManager
    \/ NextMonitor \/ NextPlan

\* a run of any one of the programs
Spec == Init /\ [][Next]_vars

\* a run of capture_and_translate.py or of the realtime diarize loop
InitStream == Init /\ prog \in {"capture", "realtime"}
SpecStream == InitStream /\ [][NextStream]_vars

\* a run of the file pipeline, with enrollments
InitFile == Init /\ prog = "file"
SpecFile == InitFile /\ [][NextFile]_vars

\* a connection to the websocket endpoint of backend/main.py
InitWs == Init /\ prog = "ws"
SpecWs == InitWs /\ [][NextWs]_vars

\* an AlertManagerAgent and its callers
InitAlerts == Init /\ prog = "alerts"
SpecAlerts == InitAlerts /\ [][NextAlerts]_vars

\* the agentic backend application and its clients
InitApi == Init /\ prog = "api"
SpecApi == InitApi /\ [][NextApi]_vars

\* the ConnectionManager of the agentic backend, its clients and broadcasts
InitManager == Init /\ prog = "manager"
SpecManager == InitManager /\ [][NextManager]_vars

\* a ComplianceMonitor and its callers
InitMonitor == Init /\ prog = "monitor"
SpecMonitor == InitMonitor /\ [][NextMonitor]_vars

\* the action planning tool of the alert manager
InitPlan == Init /\ prog = "plan"
SpecPlan == InitPlan /\ [][NextPlan]_vars

\* ================================================================ claims
\* the samples 1..n in capture order
Captured(n) == [i \in 1..n |-> i]

\* the chunks the capture loop has sent, in emission order
SentChunks == [k \in 1..Len(sent) |-> sent[k].chunk]

\* C1: round trip of chunk assembly: after every loop iteration, in the
\* capture-and-translate loop (after every pass of its inner loop too) and
\* in the realtime diarize loop, the chunks handed to processing,
\* concatenated in emission order and followed by the leftover buffer, are
\* exactly the frames received, in capture order.
C1_RoundTrip ==
    /\ prog = "capture" =>
          /\ Concat(SentChunks) \o buffer = Captured(Len(received))
          /\ received = Captured(Len(received))
    /\ (prog = "realtime" /\ pc = "get") =>
          /\ Concat(rt_chunks) \o Concat(buffer) = Captured(Len(received))
          /\ received = Captured(Len(received))

\* C1 witness: the realtime loop has handed over two chunks and keeps a
\* non-empty leftover
C1_Witness ==
    /\ prog = "realtime"
    /\ pc = "get"
    /\ Len(rt_chunks) >= 2
    /\ Concat(buffer) # <<>>

\* C2: every chunk handed to process_chunk or sent to the translation API
\* holds exactly chunk_samples samples.
C2_ChunkSize ==
    /\ \A k \in 1..Len(sent) : Len(sent[k].chunk) = CHUNK_SAMPLES
    /\ \A k \in 1..Len(rt_chunks) : Len(rt_chunks[k]) = CHUNK_SAMPLES

\* C3: immediate emission: once the frames received total exactly
\* m * chunk_samples samples (m >= 1) and the iteration that took the last
\* frame is over, exactly m chunks have been emitted and the leftover is empty.
C3_ImmediateEmission ==
    \A m \in 1..MaxSamples :
        (pc = "get" /\ Len(received) = m * CHUNK_SAMPLES) =>
            /\ prog = "capture" => (Len(sent) = m /\ buffer = <<>>)
            /\ prog = "realtime" => (Len(rt_chunks) = m /\ Concat(buffer) = <<>>)

\* C4: chunk sequence numbers of the capture-and-translate loop are gap-free:
\* the k-th chunk sent carries index k - 1, also after a chunk whose API call
\* failed or whose result was filtered, and chunk_idx counts the chunks sent.
C4_ChunkIndexGapFree ==
    /\ \A k \in 1..Len(sent) : sent[k].idx = k - 1
    /\ chunk_idx = Len(sent)

\* C4 witness: a chunk was sent after a chunk whose API call raised, and one
\* of the chunks sent had its result filtered
C4_Witness ==
    /\ prog = "capture"
    /\ \E i \in 1..Len(sent) : sent[i].outcome.raised /\ i < Len(sent)
    /\ \E j \in 1..Len(sent) : ~sent[j].outcome.raised /\ ~sent[j].shown
\* an identification was made for the turn handled last (file pipeline)
Identified == prog = "file" /\ last_turn.seen /\ last_turn.transcribed

\* the distance of the identified turn to the i-th loaded profile
TurnDist(i) == cosine(last_turn.embedding, speakers[i].embedding)

\* no loaded profile is nearer to the identified turn than the i-th
Nearest(i) == \A j \in 1..Len(speakers) : ~Less(TurnDist(j), TurnDist(i))

\* two fractions are the same number
SameFraction(a, b) == a.num * b.den = b.num * a.den

\* C5: identify_speaker returns the name of a profile at minimum cosine
\* distance iff that minimum is strictly below the threshold, else "Unknown";
\* a turn at distance 0 from the only profile, Alice, is labeled "Alice", and a
\* turn whose nearest profile is at distance 0.75 is labeled "Unknown".
C5_IdentifyNearest ==
    Identified =>
        /\ (last_turn.speaker # "Unknown") <=>
              \E i \in 1..Len(speakers) : Nearest(i) /\ Less(TurnDist(i), THRESHOLD)
        /\ (last_turn.speaker # "Unknown") =>
              \E i \in 1..Len(speakers) :
                  speakers[i].name = last_turn.speaker /\ Nearest(i)
        /\ (Len(speakers) = 1 /\ speakers[1].name = "Alice" /\ TurnDist(1).num = 0)
              => last_turn.speaker = "Alice"
        /\ (\E i \in 1..Len(speakers) :
                Nearest(i) /\ SameFraction(TurnDist(i), [num |-> 3, den |-> 4]))
              => last_turn.speaker = "Unknown"

\* C5 witness: of two loaded profiles the second is strictly nearer, is
\* below the threshold, and its name is the label
C5_Witness ==
    /\ Identified
    /\ Len(speakers) = 2
    /\ Less(TurnDist(2), TurnDist(1))
    /\ Less(TurnDist(2), THRESHOLD)
    /\ last_turn.speaker = speakers[2].name

\* C6: threshold boundary: a turn whose minimum distance to the registry
\* equals the threshold is labeled "Unknown"; a turn whose minimum distance
\* is strictly smaller than the threshold is accepted.
C6_ThresholdBoundary ==
    (Identified /\ speakers # <<>>) =>
        LET m == TurnDist(CHOOSE i \in 1..Len(speakers) : Nearest(i))
        IN  /\ SameFraction(m, THRESHOLD) => last_turn.speaker = "Unknown"
            /\ Less(m, THRESHOLD) => last_turn.speaker # "Unknown"

\* C6 witness: the nearest profile is exactly at the threshold
C6_Witness ==
    /\ Identified
    /\ speakers # <<>>
    /\ \E i \in 1..Len(speakers) : Nearest(i) /\ SameFraction(TurnDist(i), THRESHOLD)
    /\ last_turn.speaker = "Unknown"

\* C7: tie-breaking: when several profiles are at the same minimum distance
\* below the threshold, the label is the profile enrolled earliest, whatever
\* the order the enrollment directory is listed in.
C7_TieEarliestEnrolled ==
    (Identified /\ last_turn.speaker # "Unknown") =>
        \A i \in 1..Len(speakers) :
            Nearest(i) => enrolled_at[last_turn.speaker] <= enrolled_at[speakers[i].name]

\* C8: with an empty registry, or with no profile below the threshold,
\* identify_speaker returns "Unknown" and raises nothing; its result is
\* always "Unknown" or a key of the registry passed in.
C8_UnknownOrKey ==
    Identified =>
        /\ last_turn.speaker \in
              {"Unknown"} \cup {speakers[i].name : i \in 1..Len(speakers)}
        /\ speakers = <<>> => last_turn.speaker = "Unknown"
        /\ (\A i \in 1..Len(speakers) : ~Less(TurnDist(i), THRESHOLD))
              => last_turn.speaker = "Unknown"

\* C8 witness: a turn was identified against an empty registry
C8_Witness ==
    /\ Identified
    /\ speakers = <<>>
    /\ last_turn.speaker = "Unknown"

\* C9: determinism: identifications of the same turn embedding against the
\* same registry state return the same label, also when profiles tie and the
\* directory is listed in different orders.
C9_Deterministic ==
    \A r1, r2 \in id_log : r1.embedding = r2.embedding => r1.label = r2.label

\* C10: minimum duration: in the realtime and in the file pipeline a turn
\* reaches the transcriber exactly when its sample count is at least
\* 0.5 * sample rate.
C10_MinimumDuration ==
    (prog \in {"realtime", "file"} /\ last_turn.seen) =>
        (last_turn.transcribed <=> 2 * last_turn.samples >= SAMPLE_RATE)

\* C11: a diarizer failure is not fatal: when the diarizer raises for a
\* chunk, the chunk yields no segment and the consumer loop keeps running,
\* so that the next chunk is processed.
C11_DiarizerFailureNonFatal ==
    fault = "diarizer" => (pc # "crashed" /\ results = <<>>)

\* C12: a transcriber or translation-API failure is not fatal: a translation
\* call that raised shows nothing for its chunk, and the pipeline never
\* terminates because a transcription call raised.
C12_TranscriberFailureNonFatal ==
    /\ \A k \in 1..Len(sent) : sent[k].outcome.raised => ~sent[k].shown
    /\ fault = "transcriber" => pc # "crashed"

\* the lines emitted for the running call follow the diarizer's order
InTurnOrder(lines) == \A i, j \in 1..Len(lines) : i < j => lines[i] < lines[j]

\* C13: ordered emission in the realtime loop: within a chunk the segments
\* are emitted in the diarizer's order, each after those emitted before; a
\* segment is emitted for the chunk handed over last, and a later chunk is
\* handed over only when the call for the chunk before it is over.
C13_OrderedEmission ==
    /\ [](prog = "realtime" => InTurnOrder(results))
    /\ [][prog = "realtime" =>
            /\ (results' # results /\ results' # <<>>) =>
                  /\ pc = "turns"
                  /\ rt_chunks' = rt_chunks
                  /\ results' = Append(results, turn_no')
            /\ rt_chunks' # rt_chunks =>
                  /\ pc = "get"
                  /\ results = <<>>
                  /\ Len(rt_chunks') = Len(rt_chunks) + 1
                  /\ SubSeq(rt_chunks', 1, Len(rt_chunks)) = rt_chunks]_vars

\* C13 witness: the second chunk is in process_chunk and two segments have
\* been emitted for it
C13_Witness ==
    /\ prog = "realtime"
    /\ pc = "turns"
    /\ Len(rt_chunks) >= 2
    /\ Len(results) = 2

\* C14: the frame queue is bounded: it never holds more frames than a fixed
\* capacity, which the number of frames a run captures does not reach.
C14_QueueBounded ==
    Len(q) <= MaxSamples - 1

\* C15: the hand-off from the callback to the consumer is FIFO and
\* consume-once: the samples taken so far, followed by the frames still
\* queued, are the samples captured, in capture order; every frame taken is
\* in the chunks already cut or in the assembly buffer, once.
C15_FifoConsumeOnce ==
    prog \in {"capture", "realtime"} =>
        /\ received \o Concat(q) = Captured(captured)
        /\ prog = "capture" => Concat(SentChunks) \o buffer = received
        /\ (prog = "realtime" /\ pc \in {"diarize", "turns"}) =>
              Concat(SubSeq(rt_chunks, 1, Len(rt_chunks) - 1)) \o Concat(buffer)
                  = received

\* C15 witness: the consumer is processing a chunk while two frames or more
\* wait in the queue, after at least a chunk of samples was taken
C15_Witness ==
    /\ pc \in {"while", "turns"}
    /\ Len(q) >= 2
    /\ Len(received) >= CHUNK_SAMPLES

\* C16: the producer is never blocked: while the stream runs, the callback
\* can complete its push in one step, whatever the consumer is doing and
\* however many frames wait in the queue.
C16_ProducerNeverBlocked ==
    \A n \in 1..MaxFrame :
        (prog \in {"capture", "realtime"} /\ StreamActive
            /\ captured + n <= MaxSamples) => ENABLED Callback(n)

\* C16 witness: three frames have been pushed and none taken while the
\* consumer is inside process_chunk
C16_Witness ==
    /\ prog = "realtime"
    /\ pc = "turns"
    /\ Len(q) >= 3

\* C17: cancellation drains: after Ctrl+C the samples captured before the
\* interrupt are in processed chunks, up to a partial leftover: fewer than
\* chunk_samples captured samples are left unprocessed.
C17_CancellationDrains ==
    pc = "stopped" =>
        captured - Len(Concat(SentChunks)) - Len(Concat(rt_chunks)) < CHUNK_SAMPLES

\* C18: bounded retry: a chunk whose hand-off to the translation API failed
\* is handed over exactly once more, and no chunk is handed over more than
\* twice.
C18_RetryOnce ==
    \A k \in 1..Len(sent) :
        /\ sent[k].outcome.raised => sent[k].calls = 2
        /\ sent[k].calls <= 2

\* C19: a capture failure is fatal: when the input device cannot be opened
\* the script terminates; it never enters the consumer loop, takes no frame
\* and emits nothing.
C19_CaptureFailureFatal ==
    fault = "device" =>
        /\ pc = "terminated"
        /\ captured = 0 /\ q = <<>> /\ received = <<>>
        /\ sent = <<>> /\ rt_chunks = <<>> /\ results = <<>>
        /\ ~ENABLED NextStream

\* C19 witness: sd.InputStream raised and the script is over
C19_Witness ==
    /\ prog \in {"capture", "realtime"}
    /\ fault = "device"
    /\ pc = "terminated"

\* C20: registry read/write exclusion: a load of the registry never
\* overlaps an enrollment write, so no load meets a record np.save has not
\* finished writing.
C20_ReadWriteExclusion ==
    ~(writer # NoWrite /\ fault = "registry")

\* C21: speaker profiles are immutable after creation: once a name has a
\* stored embedding, no later enroll_speaker call changes what is stored
\* for that name.
C21_ProfilesImmutable ==
    [][\A n \in Names :
          (disk[n] # NoFile /\ disk[n] # Partial) => disk'[n] = disk[n]]_vars

\* the names of the records load_enrolled_speakers returned
LoadedNames == {speakers[i].name : i \in 1..Len(speakers)}

EmittedLast ==
    /\ last_turn.seen
    /\ results # <<>>
    /\ results[Len(results)] = turn_no

\* the base time, in ticks, of the chunk_no-th chunk: its sequence number
\* (from 0) times the chunk duration
ChunkBase(chunk_no) == (chunk_no - 1) * CHUNK_SAMPLES * TicksPerSample

\* C23: absolute segment times: the start and end reported for an emitted
\* segment are the base time of its chunk plus the turn's offsets within
\* the chunk.
C23_AbsoluteSegmentTimes ==
    (prog = "realtime" /\ EmittedLast) =>
        /\ last_turn.rep_start = ChunkBase(Len(rt_chunks)) + last_turn.start
        /\ last_turn.rep_end = ChunkBase(Len(rt_chunks)) + last_turn.end

\* C24: every emitted segment carries a speaker label that is the name of an
\* enrolled profile or "Unknown", never the diarizer's cluster label, in the
\* realtime and in the file pipeline.
C24_SpeakerLabel ==
    (prog \in {"realtime", "file"} /\ EmittedLast) =>
        /\ last_turn.speaker \in {"Unknown"} \cup Enrolled(disk)
        /\ last_turn.speaker \notin ClusterLabels

\* C25: chunks are processed one at a time: a frame is taken only at the top
\* of the loop, a chunk handed over is processed at once, and while a chunk
\* is being processed no frame is taken and no other chunk is started.
C25_OneChunkAtATime ==
    [][/\ received' # received => pc = "get"
       /\ (prog = "realtime" /\ rt_chunks' # rt_chunks) => pc' = "diarize"
       /\ pc \in {"diarize", "turns"} =>
             (received' = received /\ rt_chunks' = rt_chunks)
       /\ (prog = "capture" /\ sent' # sent) =>
             (received' = received /\ Len(sent') = Len(sent) + 1)]_vars

\* C25 witness: the second chunk is being processed while a frame waits in
\* the queue
C25_Witness ==
    /\ prog = "realtime"
    /\ pc = "diarize"
    /\ Len(rt_chunks) >= 2
    /\ q # <<>>

\* C26: no full chunk is left pending: each time the consumer is back at
\* waiting for the next frame, the leftover it keeps is shorter than
\* chunk_samples, for frames of any size.
C26_NoFullChunkPending ==
    pc = "get" =>
        /\ prog = "capture" => Len(buffer) < CHUNK_SAMPLES
        /\ prog = "realtime" => Len(Concat(buffer)) < CHUNK_SAMPLES

\* C27: a chunk for which the diarizer yields no turn produces no segment
\* and no error: process_chunk can return, and when it does the loop is
\* back at taking frames for the next chunk, this chunk's samples removed.
C27_ZeroTurns ==
    /\ []((prog = "realtime" /\ pc = "turns" /\ turn_no = 0) =>
            (results = <<>> /\ fault = "" /\ ENABLED RtReturn))
    /\ [][(prog = "realtime" /\ pc = "turns" /\ turn_no = 0 /\ pc' = "get") =>
            /\ results' = <<>>
            /\ fault' = ""
            /\ rt_chunks' = rt_chunks
            /\ Concat(buffer') = Drop(Concat(buffer), CHUNK_SAMPLES)]_vars

\* C27 witness: the diarizer has returned for the second chunk and has
\* yielded no turn
C27_Witness ==
    /\ prog = "realtime"
    /\ pc = "turns"
    /\ turn_no = 0
    /\ Len(rt_chunks) >= 2
    /\ Len(Concat(buffer)) > CHUNK_SAMPLES

\* C28: transient audio files do not outlive chunk processing: once the
\* processing of a chunk has ended, by its return or by the failure of an
\* adapter call, the temporary WAV file written for it is removed.
C28_TempFileRemoved ==
    pc \in {"get", "while", "crashed"} => ~tmp_wav

\* C29: the websocket endpoint conserves bytes: every received byte is
\* forwarded in exactly one request, in arrival order, or is still in the
\* buffer; a request is issued only for a buffer of more than 16000*5
\* bytes; the buffer is empty after each request; each request produces
\* exactly one text reply, the transcript or the error marker.
C29_WsConservesBytes ==
    prog = "ws" =>
        /\ ws_pc \in {"receive", "post"} =>
              Concat(ws_requests) \o audio_data = Captured(ws_count)
        /\ \A k \in 1..Len(ws_requests) : Len(ws_requests[k]) > WS_BUFFER_BYTES
        /\ ws_pc = "receive" => Len(audio_data) <= WS_BUFFER_BYTES
        /\ Len(ws_replies) = Len(ws_requests)
        /\ \A k \in 1..Len(ws_replies) :
              ws_replies[k] \in {"transcript", "[Error: Transcription failed]"}

\* C30: per-speaker alert cap: the number of stored alerts with a given
\* speaker_id is at most max_alerts_per_speaker, also when several
\* process_violation calls for the speaker are in flight at once.
C30_PerSpeakerCap ==
    \A speaker_id \in AlertSpeakers :
        Cardinality(AlertsOf(alerts, speaker_id)) <= MAX_ALERTS_PER_SPEAKER

\* the stored alerts that have the id
WithId(id) == {k \in 1..Len(alerts) : alerts[k].id = id}

\* C31: alert identifiers are unique: after any sequence or interleaving
\* of process_violation calls no two stored alerts have the same id, and
\* alert_counter equals the number of stored alerts.
C31_UniqueIds ==
    /\ \A j, k \in 1..Len(alerts) : alerts[j].id = alerts[k].id => j = k
    /\ alert_counter = Len(alerts)

\* calls have interleaved: two alerts are stored, the second one by a call
\* that began before the first one was stored, and a call is in flight
C31_Witness ==
    /\ prog = "alerts"
    /\ Len(alerts) >= 2
    /\ alerts[1].speaker_id = alerts[2].speaker_id
    /\ alerts[1].transcript_segment = alerts[2].transcript_segment
    /\ alerts[1].created_at = alerts[2].created_at
    /\ pending # <<>>

\* the violation's confidence is below the LOW threshold
LowConfidence(v) == v.confidence_score < SEVERITY_LOW

\* the speaker has a stored alert created within the duplicate window
\* whose word set is similar to the transcript's
HasRecentDuplicate(v) ==
    \E k \in AlertsOf(alerts, v.speaker_id) :
        /\ Seconds(now, alerts[k].created_at) < DUPLICATE_TIME_WINDOW
        /\ is_similar_content(v.transcript_segment, alerts[k].transcript_segment)

\* the call returns None and leaves the store, the counter and the
\* callback alone
SuppressedStep ==
    /\ reply' = PvNone
    /\ UNCHANGED <<alerts, alert_counter, notified>>

\* a step of process_violation in one of the three cases keeps the state
C32_Frame ==
    /\ \A v \in Violations :
          (PvBegin(v) /\ (LowConfidence(v) \/ HasRecentDuplicate(v))) => SuppressedStep
    /\ \A i \in 1..Len(pending), result \in CrewResults :
          PvFinish(i, "raised", result) => SuppressedStep

\* two stored alerts of one speaker with one transcript lie at least the
\* duplicate window apart in time: calls that do not overlap cannot store
\* them closer, the later call's test sees the earlier alert
C32_OneOfConcurrent ==
    \A j, k \in 1..Len(alerts) :
        (/\ j < k
         /\ alerts[j].speaker_id = alerts[k].speaker_id
         /\ alerts[j].transcript_segment = alerts[k].transcript_segment)
        => alerts[k].created_at - alerts[j].created_at >= DUPLICATE_TIME_WINDOW

\* C32: suppression leaves state unchanged: process_violation returns
\* None, stores no alert, does not advance alert_counter and does not
\* invoke the alert callback when the confidence is below 0.6, when the
\* speaker has a similar alert within the window, or when the crew run
\* raises; and two concurrent calls with the same speaker and transcript
\* store at most one alert.
C32_SuppressionLeavesState == []C32_OneOfConcurrent /\ [][C32_Frame]_vars

\* C33: acknowledge_alert(id, who) on an existing id marks exactly that
\* alert acknowledged with acknowledged_by = who and returns True, leaving
\* every other alert and the length of the list unchanged; on an unknown
\* id it returns False and changes nothing; an acknowledged alert never
\* becomes unacknowledged.
C33_Acknowledge ==
    [][/\ \A id \in AlertIds, who \in Users :
             (alert_manager = "agent" /\ HttpAcknowledge(id, who)) =>
                IF WithId(id) # {}
                THEN /\ reply'.returned = "True"
                     /\ Len(alerts') = Len(alerts)
                     /\ \A k \in 1..Len(alerts) :
                           IF k \in WithId(id)
                           THEN /\ alerts'[k].acknowledged
                                /\ alerts'[k].acknowledged_by = who
                                /\ alerts'[k].id = id
                           ELSE alerts'[k] = alerts[k]
                ELSE /\ reply'.returned = "False"
                     /\ alerts' = alerts
       /\ \A k \in 1..Len(alerts) :
             alerts[k].acknowledged => (k <= Len(alerts') /\ alerts'[k].acknowledged)
      ]_vars

\* the second of two alerts has been acknowledged, the first has not
C33_Witness ==
    /\ reply.call = "acknowledge"
    /\ reply.returned = "True"
    /\ Len(alerts) = 2
    /\ ~alerts[1].acknowledged
    /\ alerts[2].acknowledged
    /\ alerts[2].acknowledged_by = "bob"

\* C34: acknowledging an alert id that does not exist yields a 404
\* response, listing alerts with a severity outside low/medium/high/
\* critical yields a 400 response, and a 500 response is produced only
\* when the alert manager is uninitialized or an unexpected exception
\* occurs.
C34_HttpErrors ==
    [][/\ \A id \in AlertIds, who \in Users :
             (alert_manager = "agent" /\ WithId(id) = {} /\ HttpAcknowledge(id, who))
                => reply'.status = 404
       /\ \A severity \in SeverityParams :
             (/\ alert_manager = "agent"
              /\ severity \notin AlertSeverities \cup {""}
              /\ HttpGetAlerts(severity))
                => reply'.status = 400
       /\ (reply' # reply /\ reply'.status = 500) => alert_manager = "None"
      ]_vars

RECURSIVE SumOver(_, _)
\* the sum of the counts of a distribution over the keys in S
SumOver(counts, S) ==
    IF S = {} THEN 0
    ELSE LET key == CHOOSE x \in S : TRUE
         IN  counts[key] + SumOver(counts, S \ {key})

\* C35: alert statistics are a partition of the stored alerts: in every
\* reachable state get_alert_statistics reports acknowledged_count +
\* pending_count = total_alerts, and the severity counts and the type
\* counts each sum to total_alerts.
C35_StatisticsPartition ==
    LET stats == get_alert_statistics(alerts)
    IN  /\ stats.acknowledged_count + stats.pending_count = stats.total_alerts
        /\ SumOver(stats.severity_distribution, AlertSeverities) = stats.total_alerts
        /\ SumOver(stats.type_distribution, AlertTypes) = stats.total_alerts

\* statistics were asked for with two alerts of different severity and
\* type stored, one of them acknowledged
C35_Witness ==
    /\ reply.call = "statistics"
    /\ reply.status = 200
    /\ Len(alerts) = 2
    /\ alerts[1].severity # alerts[2].severity
    /\ alerts[1].alert_type # alerts[2].alert_type
    /\ alerts[1].acknowledged
    /\ ~alerts[2].acknowledged
    /\ reply.body = <<get_alert_statistics(alerts)>>

\* the connections a finished broadcast has sent to, in order
SentTo == [k \in 1..Len(bc.sent) |-> bc.sent[k].connection]

\* C36: ConnectionManager.broadcast sends the message exactly once to every
\* connection that is in active_connections when the broadcast starts, a
\* failed send never makes another connection be skipped, afterwards
\* active_connections holds exactly the connections whose send succeeded,
\* and a later disconnect of a connection the broadcast has removed
\* completes without error.  (Stated for broadcasts during which no client
\* connects and no handler disconnects.)
C36_Broadcast ==
    /\ (bc.pc = "done" /\ bc.untouched) =>
          /\ \A k \in 1..Len(bc.start) :
                Cardinality({j \in 1..Len(bc.sent) :
                                bc.sent[j].connection = bc.start[k]}) = 1
          /\ \A c \in Conns :
                InList(active_connections, c) <=>
                    \E j \in 1..Len(bc.sent) :
                        bc.sent[j].connection = c /\ bc.sent[j].ok
    /\ \A c \in Conns : conn_state[c] # "error"

\* a step of process_segment or upload_document
PostStep == \E call \in {"process_segment", "upload_document"}, raised \in BOOLEAN :
                Post(call, raised)

\* C37: ComplianceMonitor connection state machine: is_connected() is true
\* only between a start() whose health check returned status 200 and the
\* next stop(); while it is false, process_segment and upload_document
\* send no request and return {"error": "Not connected"}; and after stop()
\* the monitor is not connected whatever happened before.
C37_ConnectionStateMachine ==
    /\ [](monitor.connected => mon_event = "health 200")
    /\ [][/\ (PostStep /\ ~monitor.connected) =>
                 (mon_sent' = mon_sent /\ mon_reply'.returned = "Not connected")
          /\ StopEnd => ~monitor'.connected
         ]_vars

\* the monitor was connected and posted a request, has been stopped, and
\* a later call was turned away
C37_Witness ==
    /\ mon_sent # <<>>
    /\ mon_event = "stop"
    /\ ~monitor.connected
    /\ mon_reply.returned = "Not connected"

\* C38: _plan_actions_tool returns an action plan, not an error object, for
\* every combination of the four severities and the five alert types, with
\* action_required true exactly when the severity is medium, high or
\* critical and timeline "immediate" exactly when it is high or critical.
C38_PlanForEveryAlert ==
    \A k \in 1..Len(plans) :
        /\ plans[k].plan.kind = "plan"
        /\ plans[k].plan.action_required
              <=> plans[k].severity \in {"medium", "high", "critical"}
        /\ plans[k].plan.timeline = "immediate"
              <=> plans[k].severity \in {"high", "critical"}
====
